---- MODULE Spec2Model ----
(***************************************************************************)
(* The credential lifecycle of gmail-mcp-server (oauth.ts and auth.ts, as  *)
(* recorded in .planning/PROJECT.md): the credential file, the invocations *)
(* of getAuthenticatedClient that load, refresh and save it, and the       *)
(* authorization flow that writes the first record; the MCP tool call      *)
(* handler (index.ts) that turns a tool's outcome into a response; and the *)
(* search tool's broader-search suggestions (tools.ts).                    *)
(*                                                                         *)
(* Time is counted in minutes.  The credential file is a sequence of JSON  *)
(* tokens: JSON.stringify and JSON.parse are modelled on that sequence, and*)
(* fs.writeFileSync is modelled by the two system calls it makes, open     *)
(* with O_TRUNC and write, so that another process can run between them.   *)
(***************************************************************************)
EXTENDS Integers, Sequences, FiniteSets, TLC

\* ------------------------------------------------------------- bounds
MaxCalls == 2    \* invocations of getAuthenticatedClient in one run
MaxNow == 1      \* the clock runs from 0 to MaxNow
MaxItems == 2    \* operators and words in one search query

\* ------------------------------------------------------ program constants
ExpiryBuffer == 5                    \* 5 * 60 * 1000 ms, in minutes

ErrKeysNotFound == "OAuth keys file not found"
ErrKeysFormat == "Invalid OAuth keys file format"
ErrSyntax == "SyntaxError"
ErrNoCredentials == "No credentials found"
ErrNoRefreshToken == "No refresh token found"
ErrRefreshFailed == "Failed to refresh access token"

\* ------------------------------------------------------------ JS values
Undef == "undefined"                 \* a missing string property
UndefNum == -1                       \* a missing number property

Falsy(s) == s = Undef \/ s = ""

\* a < b of JavaScript on numbers: false when either side is undefined (NaN)
JsLt(a, b) == a # UndefNum /\ b # UndefNum /\ a < b

\* the callers of getAuthenticatedClient: two tasks or two processes
Procs == {1, 2}
MaxExpiry == MaxNow + ExpiryBuffer + 1

\* interface Credentials
Cred(a, r, s, t, e) ==
    [isNull |-> FALSE, access_token |-> a, refresh_token |-> r, scope |-> s,
     token_type |-> t, expiry_date |-> e]

\* the null that loadCredentials returns
NullCred ==
    [isNull |-> TRUE, access_token |-> Undef, refresh_token |-> Undef,
     scope |-> Undef, token_type |-> Undef, expiry_date |-> UndefNum]

\* ------------------------------------------------------------ JSON text
Tok(k, s, n) == [k |-> k, s |-> s, n |-> n]
Open == Tok("{", "", 0)
Close == Tok("}", "", 0)
Garbage == <<Tok("#", "", 0)>>
EmptyObject == <<Open, Close>>           \* the text {}
FieldNames == {"access_token", "refresh_token", "scope", "token_type", "expiry_date"}

StrTok(k, s) == IF s = Undef THEN <<>> ELSE <<Tok(k, s, 0)>>
NumTok(k, n) == IF n = UndefNum THEN <<>> ELSE <<Tok(k, "", n)>>

\* JSON.stringify(credentials, null, 2): properties in declaration order,
\* undefined properties left out
Stringify(c) ==
    <<Open>> \o StrTok("access_token", c.access_token)
             \o StrTok("refresh_token", c.refresh_token)
             \o StrTok("scope", c.scope)
             \o StrTok("token_type", c.token_type)
             \o NumTok("expiry_date", c.expiry_date) \o <<Close>>

WellFormed(text) ==
    /\ Len(text) >= 2
    /\ text[1] = Open
    /\ text[Len(text)] = Close
    /\ \A i \in 2..(Len(text) - 1) : text[i].k \in FieldNames

\* the value of property k: of its last occurrence when it is repeated
StrProp(text, k) ==
    LET at == SelectSeq(text, LAMBDA t : t.k = k)
    IN  IF at = <<>> THEN Undef ELSE at[Len(at)].s

NumProp(text, k) ==
    LET at == SelectSeq(text, LAMBDA t : t.k = k)
    IN  IF at = <<>> THEN UndefNum ELSE at[Len(at)].n

\* JSON.parse: throws on text that is not one whole object
Parse(text) ==
    IF WellFormed(text)
    THEN [threw |-> FALSE,
          value |-> Cred(StrProp(text, "access_token"), StrProp(text, "refresh_token"),
                         StrProp(text, "scope"), StrProp(text, "token_type"),
                         NumProp(text, "expiry_date"))]
    ELSE [threw |-> TRUE, value |-> NullCred]

\* ------------------------------------------------------------ the files
NoFile == [exists |-> FALSE, text |-> <<>>]
FileOf(text) == [exists |-> TRUE, text |-> text]

KeysFiles == {"web", "missing", "noshape", "notjson"}

\* loadOAuthKeys: the error it throws, "" when it returns the keys
loadOAuthKeys(k) ==
    CASE k = "missing" -> ErrKeysNotFound
      [] k = "notjson" -> ErrSyntax
      [] k = "noshape" -> ErrKeysFormat
      [] OTHER -> ""

\* loadCredentials: null for a missing file and for a file JSON.parse rejects
loadCredentialsEmptyObject(f) ==
    IF ~f.exists THEN NullCred
    ELSE IF Parse(f.text).threw THEN Cred(Undef, Undef, Undef, Undef, UndefNum)
    ELSE Parse(f.text).value

loadCredentials(f) ==
    IF ~f.exists THEN NullCred
    ELSE IF Parse(f.text).threw THEN NullCred
    ELSE Parse(f.text).value

\* fs.writeFileSync(credPath, text): system call i of the two it makes, on the
\* file as it is when the call runs.  1: open(O_WRONLY|O_CREAT|O_TRUNC);
\* 2: write(text) at offset 0, which leaves what lies beyond the text in place
WriteStepInPlace(f, text, i) ==
    LET n == IF i = 1 THEN 2 ELSE Len(text)
    IN  FileOf(IF n >= Len(f.text) THEN SubSeq(text, 1, n)
               ELSE SubSeq(text, 1, n) \o SubSeq(f.text, n + 1, Len(f.text)))

WriteStep(f, text, i) ==
    IF i = 1 THEN FileOf(<<>>)
    ELSE FileOf(IF Len(text) >= Len(f.text) THEN text
                ELSE text \o SubSeq(f.text, Len(text) + 1, Len(f.text)))

\* ------------------------------------------------- getAuthenticatedClient
\* credentials.expiry_date < now + expiryBuffer
isExpiredInclusive(c, n) == c.expiry_date # UndefNum /\ c.expiry_date <= n + ExpiryBuffer

isExpiredNoBuffer(c, n) == JsLt(c.expiry_date, n)

isExpired(c, n) == JsLt(c.expiry_date, n + ExpiryBuffer)

\* the checks of getAuthenticatedClient on the loaded record, in their order
DecideExpiryFirst(c, n) ==
    IF c.isNull THEN "nocreds"
    ELSE IF isExpired(c, n) THEN "refresh"
    ELSE IF Falsy(c.refresh_token) THEN "norefresh"
    ELSE "fresh"

DecideRefreshTokenWhenDue(c, n) ==
    IF c.isNull THEN "nocreds"
    ELSE IF isExpired(c, n)
         THEN (IF Falsy(c.refresh_token) THEN "norefresh" ELSE "refresh")
    ELSE "fresh"

Decide(c, n) ==
    IF c.isNull THEN "nocreds"
    ELSE IF Falsy(c.refresh_token) THEN "norefresh"
    ELSE IF isExpired(c, n) THEN "refresh"
    ELSE "fresh"

\* updatedCredentials of refreshAccessToken
refreshAccessTokenFromResponse(c, newCreds) ==
    Cred(newCreds.access_token, newCreds.refresh_token, c.scope, c.token_type,
         newCreds.expiry_date)

refreshAccessTokenSpreadsResponse(c, newCreds) ==
    Cred(newCreds.access_token, c.refresh_token, newCreds.scope,
         newCreds.token_type, newCreds.expiry_date)

refreshAccessToken(c, newCreds) ==
    Cred(newCreds.access_token, c.refresh_token, c.scope, c.token_type,
         newCreds.expiry_date)

\* oauth2Client.setCredentials({access_token, refresh_token, expiry_date})
ClientOf(c) ==
    [access_token |-> c.access_token, refresh_token |-> c.refresh_token,
     expiry_date |-> c.expiry_date]

NoClient == [access_token |-> Undef, refresh_token |-> Undef, expiry_date |-> UndefNum]
NoError == [msg |-> "", cause |-> ""]
Error(m, c) == [msg |-> m, cause |-> c]

\* what the authorization server can answer to a refresh request
\* (the i-th answer carries the i-th access token the server issues)
Issued == <<"a1", "a2", "a3", "a4">>
RespExpiryDates == {UndefNum, 0, MaxExpiry}
Responses(i) ==
    {Cred(Issued[i], Undef, "s1", "Bearer", e) : e \in RespExpiryDates}
        \cup {Cred(Issued[i], "r2", "s2", "MAC", MaxExpiry)}
Causes == {"invalid_grant", "ETIMEDOUT"}

\* what getToken can return to the authorization flow
AuthTokens ==
    {Cred("a9", r, "s0", "Bearer", MaxExpiry) : r \in {Undef, "r1"}}

\* the credential files a run can start from: none, a damaged one, or a
\* record written by the authorization flow
InitExpiryDates == {0} \cup ((ExpiryBuffer - 1)..(MaxNow + ExpiryBuffer))
InitRecords ==
    {Cred("a0", r, "s0", "Bearer", e) :
        r \in {Undef, "", "r0"}, e \in InitExpiryDates}
InitFiles ==
    {NoFile, FileOf(Garbage), FileOf(EmptyObject)}
        \cup {FileOf(Stringify(c)) : c \in InitRecords}

VARIABLES keysFile, file, now, calls, pc, credentials, sawFile, callAt, newCreds,
          updated, client, err, refreshCalls, writes, authPc, authText, issued, written, hadRT, overRecord, recordAtLoad

authVars == <<keysFile, file, now, calls, pc, credentials, sawFile, callAt, newCreds,
          updated, client, err, refreshCalls, writes, authPc, authText, issued, written, hadRT, overRecord, recordAtLoad>>

\* the tool call handler: where it is, the tool name of the request, what the
\* tool function did, and the response returned to the MCP client
VARIABLES hpc, request, outcome, response

handlerVars == <<hpc, request, outcome, response>>

\* searchMessages: where it is, its query, what listMessages returned, and
\* the value it returns
VARIABLES spc, query, listed, result

searchVars == <<spc, query, listed, result>>

\* createOAuth2Client: where it is, the content of the registration file,
\* and the client it creates
VARIABLES kpc, registration, oauth2Client

keysVars == <<kpc, registration, oauth2Client>>

\* accounts kept apart by path: the GMAIL_CREDENTIALS_PATH of each server
\* process, the files on disk by path, and for each process where its
\* invocation is, the record it loaded, the response it got, and the paths
\* it has read and written
VARIABLES env, disk, ppc, pcred, presp, readFrom, wroteTo

pathVars == <<env, disk, ppc, pcred, presp, readFrom, wroteTo>>

toolVars == <<handlerVars, searchVars, keysVars, pathVars>>

vars == <<authVars, toolVars>>

NoOutcome ==
    [kind |-> "none", instanceofError |-> FALSE, message |-> "",
     thrown |-> [type |-> "none", s |-> ""], value |-> <<>>]
NoResponse == [content |-> <<>>]

HandlerIdle ==
    /\ hpc = "idle"
    /\ request = ""
    /\ outcome = NoOutcome
    /\ response = NoResponse

NoListing == [messages |-> <<>>, nextPageToken |-> Undef]

SearchIdle ==
    /\ spc = "idle"
    /\ query = <<>>
    /\ listed = NoListing
    /\ result = NoListing

\* the keys of one app in a registration file; redirect_uris may be missing
Keys(id, secret, hasUris, uris) ==
    [present |-> TRUE, client_id |-> id, client_secret |-> secret,
     hasUris |-> hasUris, redirect_uris |-> uris]
NoKeys ==
    [present |-> FALSE, client_id |-> Undef, client_secret |-> Undef,
     hasUris |-> FALSE, redirect_uris |-> <<>>]
NoOAuth2Client ==
    [created |-> FALSE, error |-> "", clientId |-> Undef,
     clientSecret |-> Undef, redirectUri |-> Undef]

KeysIdle ==
    /\ kpc = "idle"
    /\ registration = [web |-> NoKeys, installed |-> NoKeys]
    /\ oauth2Client = NoOAuth2Client

\* A path is the sequence of its segments: "~" first for a path under the
\* home directory, "/" first for an absolute path.
HomeDir == <<"/", "home", "you">>
WorkingDir == <<"/", "srv", "gmail-mcp">>
Accounts == {1, 2}

\* the values of GMAIL_CREDENTIALS_PATH; <<>> is the variable unset
EnvPaths ==
    {<<>>,
     <<"~", ".gmail-mcp", "credentials.json">>,
     <<"~", ".gmail-mcp", "work", "credentials.json">>,
     <<"/", "data", "personal", "credentials.json">>,
     <<"accounts", "credentials.json">>}

\* p.startsWith("~") ? path.join(os.homedir(), p.slice(1)) : path.resolve(p)
resolvePath(p) ==
    IF p[1] = "~" THEN HomeDir \o Tail(p)
    ELSE IF p[1] = "/" THEN p
    ELSE WorkingDir \o p

getCredentialsPath(envPath) ==
    IF envPath # <<>> THEN resolvePath(envPath)
    ELSE HomeDir \o <<".gmail-mcp", "credentials.json">>

Paths == {getCredentialsPath(e) : e \in EnvPaths}

PathIdle ==
    /\ env = [a \in Accounts |-> <<>>]
    /\ disk = [path \in Paths |-> [exists |-> FALSE, text |-> <<>>]]
    /\ ppc = [a \in Accounts |-> "idle"]
    /\ pcred = [a \in Accounts |-> NullCred]
    /\ presp = [a \in Accounts |-> NullCred]
    /\ readFrom = [a \in Accounts |-> {}]
    /\ wroteTo = [a \in Accounts |-> {}]

ToolsIdle == HandlerIdle /\ SearchIdle /\ KeysIdle /\ PathIdle

IsRecord(f) == f.exists /\ ~Parse(f.text).threw
HasRefreshToken(f) == IsRecord(f) /\ ~Falsy(Parse(f.text).value.refresh_token)

AuthInit ==
    /\ keysFile \in KeysFiles
    /\ file \in InitFiles
    /\ now = 0
    /\ calls = 0
    /\ pc = [p \in Procs |-> "idle"]
    /\ credentials = [p \in Procs |-> NullCred]
    /\ sawFile = [p \in Procs |-> NoFile]
    /\ callAt = [p \in Procs |-> 0]
    /\ newCreds = [p \in Procs |-> NullCred]
    /\ updated = [p \in Procs |-> NullCred]
    /\ client = [p \in Procs |-> NoClient]
    /\ err = [p \in Procs |-> NoError]
    /\ refreshCalls = [p \in Procs |-> 0]
    /\ writes = [p \in Procs |-> 0]
    /\ authPc = "idle"
    /\ issued = 0
    /\ authText = <<>>
    /\ written = IF IsRecord(file) THEN {file.text} ELSE {}
    /\ hadRT = HasRefreshToken(file)
    /\ overRecord = FALSE
    /\ recordAtLoad = [p \in Procs |-> FALSE]

Init == AuthInit /\ ToolsIdle

\* the saves that have opened the file and not yet written it (0 is the
\* authorization flow)
Saving == {p \in Procs : pc[p] = "writing"} \cup (IF authPc = "writing" THEN {0} ELSE {})

\* The history of the file, kept for the properties.  written: the texts
\* that a save wrote in full (and the text the run started from); hadRT: the
\* file has held a record with a refresh token; overRecord: a save is under
\* way that began over a valid record.
TrackOpen ==
    /\ written' = written
    /\ hadRT' = hadRT
    /\ overRecord' = IF Saving = {} THEN IsRecord(file) ELSE overRecord

TrackWrite(w, text) ==
    /\ written' = written \cup {text}
    /\ hadRT' = (hadRT \/ HasRefreshToken(file'))
    /\ overRecord' = IF Saving = {w} THEN FALSE ELSE overRecord

\* const credentials = loadCredentials(): read from the file on every call
ReadCredentialsCached(p) ==
    IF credentials[p].isNull THEN loadCredentials(file) ELSE credentials[p]

ReadCredentials(p) == loadCredentials(file)

\* getAuthenticatedClient, up to its first await: createOAuth2Client,
\* loadCredentials, the two checks and the expiry test
GetAuthenticatedClient(p) ==
    /\ pc[p] \in {"idle", "done", "failed"}
    /\ calls < MaxCalls
    /\ calls' = calls + 1
    /\ callAt' = [callAt EXCEPT ![p] = now]
    /\ newCreds' = [newCreds EXCEPT ![p] = NullCred]
    /\ updated' = [updated EXCEPT ![p] = NullCred]
    /\ writes' = [writes EXCEPT ![p] = 0]
    /\ IF loadOAuthKeys(keysFile) # ""
       THEN /\ pc' = [pc EXCEPT ![p] = "failed"]
            /\ err' = [err EXCEPT ![p] = Error(loadOAuthKeys(keysFile), "")]
            /\ credentials' = [credentials EXCEPT ![p] = NullCred]
            /\ sawFile' = [sawFile EXCEPT ![p] = NoFile]
            /\ recordAtLoad' = [recordAtLoad EXCEPT ![p] = FALSE]
            /\ client' = [client EXCEPT ![p] = NoClient]
            /\ refreshCalls' = [refreshCalls EXCEPT ![p] = 0]
       ELSE LET c == ReadCredentials(p)
                d == Decide(c, now)
            IN  /\ credentials' = [credentials EXCEPT ![p] = c]
                /\ sawFile' = [sawFile EXCEPT ![p] = file]
                /\ recordAtLoad' = [recordAtLoad EXCEPT ![p] = overRecord]
                /\ pc' = [pc EXCEPT ![p] =
                            CASE d = "refresh" -> "refreshing"
                              [] d = "fresh" -> "done"
                              [] OTHER -> "failed"]
                /\ err' = [err EXCEPT ![p] =
                            CASE d = "nocreds" -> Error(ErrNoCredentials, "")
                              [] d = "norefresh" -> Error(ErrNoRefreshToken, "")
                              [] OTHER -> NoError]
                /\ client' = [client EXCEPT ![p] =
                            IF d = "fresh" THEN ClientOf(c) ELSE NoClient]
                /\ refreshCalls' = [refreshCalls EXCEPT ![p] =
                            IF d = "refresh" THEN 1 ELSE 0]
    /\ UNCHANGED <<keysFile, file, now, authPc, authText, issued, written,
                   hadRT, overRecord>>
    /\ UNCHANGED toolVars

\* the refresh request is answered: refreshAccessToken builds the updated
\* record and saveCredentials opens the file
RefreshSucceedsReturnsEarly(p) ==
    /\ pc[p] = "refreshing"
    /\ issued' = issued + 1
    /\ \E r \in Responses(issued + 1) :
         /\ newCreds' = [newCreds EXCEPT ![p] = r]
         /\ updated' = [updated EXCEPT ![p] = refreshAccessToken(credentials[p], r)]
         /\ client' = [client EXCEPT ![p] = ClientOf(refreshAccessToken(credentials[p], r))]
         /\ file' = WriteStep(file, Stringify(refreshAccessToken(credentials[p], r)), 1)
    /\ writes' = [writes EXCEPT ![p] = @ + 1]
    /\ pc' = [pc EXCEPT ![p] = "writing"]
    /\ TrackOpen
    /\ UNCHANGED <<keysFile, now, calls, credentials, sawFile, callAt, err,
                   refreshCalls, authPc, authText, recordAtLoad>>
    /\ UNCHANGED toolVars

RefreshSucceeds(p) ==
    /\ pc[p] = "refreshing"
    /\ issued' = issued + 1
    /\ \E r \in Responses(issued + 1) :
         /\ newCreds' = [newCreds EXCEPT ![p] = r]
         /\ updated' = [updated EXCEPT ![p] = refreshAccessToken(credentials[p], r)]
         /\ file' = WriteStep(file, Stringify(refreshAccessToken(credentials[p], r)), 1)
    /\ writes' = [writes EXCEPT ![p] = @ + 1]
    /\ pc' = [pc EXCEPT ![p] = "writing"]
    /\ TrackOpen
    /\ UNCHANGED <<keysFile, now, calls, credentials, sawFile, callAt, client, err,
                   refreshCalls, authPc, authText, recordAtLoad>>
    /\ UNCHANGED toolVars

\* the write of saveCredentials, then the rest of getAuthenticatedClient
SaveAndReturn(p) ==
    /\ pc[p] = "writing"
    /\ file' = WriteStep(file, Stringify(updated[p]), 2)
    /\ client' = [client EXCEPT ![p] = ClientOf(updated[p])]
    /\ pc' = [pc EXCEPT ![p] = "done"]
    /\ TrackWrite(p, Stringify(updated[p]))
    /\ UNCHANGED <<keysFile, now, calls, credentials, sawFile, callAt, newCreds,
                   updated, err, refreshCalls, writes, authPc, authText, issued,
                   recordAtLoad>>
    /\ UNCHANGED toolVars

\* the refresh request fails: the catch of getAuthenticatedClient rethrows
RefreshFailsWipes(p) ==
    /\ pc[p] = "refreshing"
    /\ \E c \in Causes : err' = [err EXCEPT ![p] = Error(ErrRefreshFailed, c)]
    /\ pc' = [pc EXCEPT ![p] = "failed"]
    /\ file' = WriteStep(file, <<>>, 1)
    /\ UNCHANGED <<keysFile, now, calls, credentials, sawFile, callAt, newCreds,
                   updated, client, refreshCalls, writes, authPc, issued,
                   authText, written, hadRT, overRecord, recordAtLoad>>
    /\ UNCHANGED toolVars

RefreshFailsRetries(p) ==
    /\ pc[p] = "refreshing"
    /\ refreshCalls' = [refreshCalls EXCEPT ![p] = @ + 1]
    /\ UNCHANGED <<keysFile, file, now, calls, pc, credentials, sawFile, callAt,
                   newCreds, updated, client, err, writes, authPc,
                   issued, authText, written, hadRT, overRecord, recordAtLoad>>
    /\ UNCHANGED toolVars

RefreshFails(p) ==
    /\ pc[p] = "refreshing"
    /\ \E c \in Causes : err' = [err EXCEPT ![p] = Error(ErrRefreshFailed, c)]
    /\ pc' = [pc EXCEPT ![p] = "failed"]
    /\ UNCHANGED <<keysFile, file, now, calls, credentials, sawFile, callAt,
                   newCreds, updated, client, refreshCalls, writes, authPc,
                   issued, authText, written, hadRT, overRecord, recordAtLoad>>
    /\ UNCHANGED toolVars

\* ------------------------------------------------ the authorization flow
\* the callback of authenticate: getToken answers and saveCredentials opens
\* the file
AuthCallback ==
    /\ authPc = "idle"
    /\ loadOAuthKeys(keysFile) = ""
    /\ \E t \in AuthTokens :
         /\ authText' = Stringify(t)
         /\ file' = WriteStep(file, Stringify(t), 1)
    /\ authPc' = "writing"
    /\ TrackOpen
    /\ UNCHANGED <<keysFile, now, calls, pc, credentials, sawFile, callAt, newCreds,
                   updated, client, err, refreshCalls, writes, issued,
                   recordAtLoad>>
    /\ UNCHANGED toolVars

AuthSave ==
    /\ authPc = "writing"
    /\ file' = WriteStep(file, authText, 2)
    /\ authPc' = "done"
    /\ TrackWrite(0, authText)
    /\ UNCHANGED <<keysFile, now, calls, pc, credentials, sawFile, callAt, newCreds,
                   updated, client, err, refreshCalls, writes, issued,
                   authText, recordAtLoad>>
    /\ UNCHANGED toolVars

\* the wall clock
Tick ==
    /\ now < MaxNow
    /\ now' = now + 1
    /\ UNCHANGED <<keysFile, file, calls, pc, credentials, sawFile, callAt, newCreds,
                   updated, client, err, refreshCalls, writes, authPc,
                   issued, authText, written, hadRT, overRecord, recordAtLoad>>
    /\ UNCHANGED toolVars

Next ==
    \/ \E p \in Procs : GetAuthenticatedClient(p)
    \/ \E p \in Procs : RefreshSucceeds(p)
    \/ \E p \in Procs : SaveAndReturn(p)
    \/ \E p \in Procs : RefreshFails(p)
    \/ AuthCallback
    \/ AuthSave
    \/ Tick

Spec == Init /\ [][Next]_vars

\* ------------------------------------- a server that may stay silent
\* The authorization server never answers the refresh request of p: the
\* promise awaited in refreshAccessToken is never settled.  The code sets no
\* timeout and starts no timer, so nothing is left to run for p.
RefreshUnanswered(p) ==
    /\ pc[p] = "refreshing"
    /\ pc' = [pc EXCEPT ![p] = "waiting"]
    /\ UNCHANGED <<keysFile, file, now, calls, credentials, sawFile, callAt,
                   newCreds, updated, client, err, refreshCalls, writes, authPc,
                   issued, authText, written, hadRT, overRecord, recordAtLoad>>
    /\ UNCHANGED toolVars

\* one stored record, due for a refresh
LiveInit ==
    /\ Init
    /\ keysFile = "web"
    /\ file = FileOf(Stringify(Cred("a0", "r0", "s0", "Bearer", 0)))

LiveNext ==
    \/ Next
    \/ \E p \in Procs : RefreshUnanswered(p)

\* the event loop runs every continuation that is ready, and a server that
\* answers does so in the end
LiveSpec == LiveInit /\ [][LiveNext]_vars /\ WF_vars(LiveNext)

\* ------------------------------------------- the tool call handler
\* the tool names of the switch, and names it does not know
Tools ==
    {"list_messages", "read_message", "search_messages", "send_message",
     "modify_message", "list_labels", "create_label", "create_draft",
     "send_draft"}
UnknownNames == {"delete_message", ""}
RequestNames == Tools \cup UnknownNames

\* what a tool function can do: return a value, throw an Error, or throw a
\* value that is not an Error
Returned(v) == [NoOutcome EXCEPT !.kind = "returned", !.value = v]
ThrewError(m) ==
    [NoOutcome EXCEPT !.kind = "threw", !.instanceofError = TRUE, !.message = m]
ThrewValue(v) == [NoOutcome EXCEPT !.kind = "threw", !.thrown = v]

\* the message of an error thrown by getAuthenticatedClient
MessageOf(e) == IF e.cause = "" THEN e.msg ELSE e.msg \o ": " \o e.cause

CredentialErrors ==
    {Error(m, "") : m \in {ErrKeysNotFound, ErrKeysFormat, ErrSyntax,
                           ErrNoCredentials, ErrNoRefreshToken}}
        \cup {Error(ErrRefreshFailed, c) : c \in Causes}

ErrNotFound == "Requested entity was not found."
ErrArguments == "Cannot read properties of undefined (reading 'query')"

Throws ==
    {ThrewError(MessageOf(e)) : e \in CredentialErrors}
        \cup {ThrewError(ErrNotFound), ThrewError(ErrArguments)}
        \cup {ThrewValue([type |-> "string", s |-> "quota exceeded"]),
              ThrewValue([type |-> "object", s |-> ""])}

\* String(error) of a thrown value that is not an Error
JsString(v) == IF v.type = "string" THEN v.s ELSE "[object Object]"

\* a tool's result: an object, as the sequence of its properties
Prop(k, v) == [k |-> k, v |-> v]
ToolResults ==
    {<<>>,
     <<Prop("id", "m1"), Prop("threadId", "t1")>>,
     <<Prop("id", "m1"), Prop("nextPageToken", Undef)>>,
     <<Prop("nextPageToken", Undef)>>}

\* JSON.stringify(result, null, 2): a property whose value is undefined is
\* left out; members are indented by two spaces, one on a line
RECURSIVE Members(_)
Members(props) ==
    IF props = <<>> THEN ""
    ELSE "\n  \"" \o props[1].k \o "\": \"" \o props[1].v \o "\""
             \o (IF Len(props) > 1 THEN "," ELSE "")
             \o Members(Tail(props))

JSONstringify(props) ==
    LET defined == SelectSeq(props, LAMBDA q : q.v # Undef)
    IN  IF defined = <<>> THEN "{}" ELSE "{" \o Members(defined) \o "\n}"

TextContent(t) == <<[type |-> "text", text |-> t]>>

\* the three return statements of the handler
UnknownToolResponse(name) ==
    [content |-> TextContent("Unknown tool: " \o name), isError |-> TRUE]

ResultResponse(v) == [content |-> TextContent(JSONstringify(v))]

CatchResponse(error) ==
    LET message == IF error.instanceofError THEN error.message
                   ELSE JsString(error.thrown)
    IN  [content |-> TextContent("Error: " \o message), isError |-> TRUE]

\* the handler up to its await: the switch either calls the tool function
\* of that name or returns from its default branch
CallTool(name) ==
    /\ hpc \in {"idle", "responded"}
    /\ request' = name
    /\ outcome' = NoOutcome
    /\ IF name \in Tools
       THEN hpc' = "awaiting" /\ response' = NoResponse
       ELSE hpc' = "responded" /\ response' = UnknownToolResponse(name)
    /\ UNCHANGED <<authVars, searchVars, keysVars, pathVars>>

\* the tool function returns
ToolReturns ==
    /\ hpc = "awaiting"
    /\ \E v \in ToolResults :
         /\ outcome' = Returned(v)
         /\ response' = ResultResponse(v)
    /\ hpc' = "responded"
    /\ UNCHANGED <<request, authVars, searchVars, keysVars, pathVars>>

\* the tool function throws: the catch block builds the response
ToolThrowsUncaught ==
    /\ hpc = "awaiting"
    /\ \E e \in Throws : outcome' = e
    /\ response' = NoResponse
    /\ hpc' = "threw"
    /\ UNCHANGED <<request, authVars, searchVars, keysVars, pathVars>>

ToolThrows ==
    /\ hpc = "awaiting"
    /\ \E e \in Throws :
         /\ outcome' = e
         /\ response' = CatchResponse(e)
    /\ hpc' = "responded"
    /\ UNCHANGED <<request, authVars, searchVars, keysVars, pathVars>>

\* the credential lifecycle at rest
AuthQuiet == AuthInit /\ keysFile = "web" /\ file = NoFile

HandlerInit == AuthQuiet /\ ToolsIdle

HandlerNext ==
    \/ \E name \in RequestNames : CallTool(name)
    \/ ToolReturns
    \/ ToolThrows

HandlerSpec == HandlerInit /\ [][HandlerNext]_vars

\* ------------------------------------------------- the search tool
\* A query is a sequence of items separated by blanks: an operator with its
\* value (op:value or op:"some words") or, with op = "", a word or a quoted
\* phrase.  A value is kept as the sequence of its words.
Item(op, value, quoted) == [op |-> op, value |-> value, quoted |-> quoted]

QueryItems ==
    {Item("from", <<"Don">>, FALSE),
     Item("from", <<"Al">>, FALSE),
     Item("from", <<"Don", "Stratton">>, TRUE),
     Item("to", <<"Don">>, FALSE),
     Item("subject", <<"Stratton">>, FALSE),
     Item("after", <<"2025/01/01">>, FALSE),
     Item("before", <<"2025/02/01">>, FALSE),
     Item("has", <<"attachment">>, FALSE),
     Item("label", <<"work">>, FALSE),
     Item("is", <<"unread">>, FALSE),
     Item("cc", <<"Don">>, FALSE),
     Item("", <<"Stratton">>, FALSE),
     Item("", <<"Al">>, FALSE),
     Item("", <<"Don", "Stratton">>, TRUE)}

Queries == UNION {[1..n -> QueryItems] : n \in 0..MaxItems}

RECURSIVE Join(_, _)
Join(parts, sep) ==
    IF parts = <<>> THEN ""
    ELSE IF Len(parts) = 1 THEN parts[1]
    ELSE parts[1] \o sep \o Join(Tail(parts), sep)

ValueText(value) == Join(value, " ")
Quote(t) == "\"" \o t \o "\""

ItemText(it) ==
    (IF it.op = "" THEN "" ELSE it.op \o ":")
        \o (IF it.quoted THEN Quote(ValueText(it.value)) ELSE ValueText(it.value))

Raw(q) == Join([i \in 1..Len(q) |-> ItemText(q[i])], " ")

\* the values of the matches of operatorRegex whose operator is op
ValuesOf(q, op) ==
    LET matches == SelectSeq(q, LAMBDA it : it.op = op)
    IN  [i \in 1..Len(matches) |-> matches[i].value]

\* result.after = value: the last match wins; <<>> when there is none
LastValueOf(q, op) ==
    IF ValuesOf(q, op) = <<>> THEN <<>>
    ELSE ValuesOf(q, op)[Len(ValuesOf(q, op))]

parseGmailQuery(q) ==
    [raw |-> Raw(q),
     from |-> ValuesOf(q, "from"),
     to |-> ValuesOf(q, "to"),
     subject |-> ValuesOf(q, "subject"),
     after |-> LastValueOf(q, "after"),
     before |-> LastValueOf(q, "before"),
     hasAttachment |-> \E i \in 1..Len(q) :
                           q[i].op = "has" /\ q[i].value = <<"attachment">>,
     label |-> ValuesOf(q, "label"),
     isUnread |-> \E i \in 1..Len(q) :
                      q[i].op = "is" /\ q[i].value = <<"unread">>,
     body |-> [i \in 1..Len(ValuesOf(q, "")) |-> ValueText(ValuesOf(q, "")[i])]]

hasOperators(parsed) ==
    \/ Len(parsed.from) > 0
    \/ Len(parsed.to) > 0
    \/ Len(parsed.subject) > 0
    \/ parsed.after # <<>>
    \/ parsed.before # <<>>
    \/ parsed.hasAttachment
    \/ Len(parsed.label) > 0
    \/ parsed.isUnread

Suggestion(qry, reason) == [query |-> qry, reason |-> reason]

\* Strategy 1, for one value of a field: one suggestion for each word
\* longer than two characters, and the whole phrase when there are several
WordSuggestion(w, name) ==
    Suggestion(w, "Search all fields for " \o Quote(w)
                      \o " instead of just the " \o name)

ValueSuggestions(value, name) ==
    LET words == SelectSeq(value, LAMBDA w : Len(w) > 2)
    IN  [i \in 1..Len(words) |-> WordSuggestion(words[i], name)]
            \o (IF Len(words) > 1
                THEN <<Suggestion(Quote(ValueText(value)),
                                  "Search all fields for "
                                      \o Quote(ValueText(value))
                                      \o " as a phrase")>>
                ELSE <<>>)

RECURSIVE FieldSuggestions(_, _)
FieldSuggestions(field, name) ==
    IF field = <<>> THEN <<>>
    ELSE ValueSuggestions(field[1], name) \o FieldSuggestions(Tail(field), name)

Strategy1(parsed) ==
    FieldSuggestions(parsed.from, "sender")
        \o FieldSuggestions(parsed.to, "recipient")
        \o FieldSuggestions(parsed.subject, "subject")

\* op:value, the value quoted when it holds a blank
FieldParts(op, field) ==
    [i \in 1..Len(field) |->
        op \o ":" \o (IF Len(field[i]) > 1 THEN Quote(ValueText(field[i]))
                      ELSE ValueText(field[i]))]

AddressParts(parsed) ==
    FieldParts("from", parsed.from) \o FieldParts("to", parsed.to)
        \o FieldParts("subject", parsed.subject) \o parsed.body

\* Strategy 2: the query without its date restrictions
Strategy2(parsed) ==
    LET parts == AddressParts(parsed)
                     \o [i \in 1..Len(parsed.label) |->
                            "label:" \o ValueText(parsed.label[i])]
    IN  IF (parsed.after # <<>> \/ parsed.before # <<>>) /\ Len(parts) > 0
        THEN <<Suggestion(Join(parts, " "),
                          "Remove date restrictions to search all time")>>
        ELSE <<>>

\* Strategy 3: the query without its label restrictions
Strategy3(parsed) ==
    LET parts == AddressParts(parsed)
                     \o (IF parsed.after # <<>>
                         THEN <<"after:" \o ValueText(parsed.after)>> ELSE <<>>)
                     \o (IF parsed.before # <<>>
                         THEN <<"before:" \o ValueText(parsed.before)>> ELSE <<>>)
    IN  IF Len(parsed.label) > 0 /\ Len(parts) > 0
        THEN <<Suggestion(Join(parts, " "),
                          "Search all labels instead of specific ones")>>
        ELSE <<>>

\* the suggestions whose query has not been seen before, in order
RECURSIVE Deduplicate(_, _)
Deduplicate(suggestions, seen) ==
    IF suggestions = <<>> THEN <<>>
    ELSE IF suggestions[1].query \in seen
         THEN Deduplicate(Tail(suggestions), seen)
    ELSE <<suggestions[1]>>
             \o Deduplicate(Tail(suggestions), seen \cup {suggestions[1].query})

Slice(seq, n) == SubSeq(seq, 1, IF Len(seq) < n THEN Len(seq) ELSE n)

MaxSuggestions == 5

NoSuggestions ==
    [isNull |-> TRUE, noResults |-> FALSE, broaderQueries |-> <<>>, prompt |-> ""]

generateBroaderSuggestions(parsed) ==
    LET suggestions == Strategy1(parsed) \o Strategy2(parsed) \o Strategy3(parsed)
    IN  IF ~hasOperators(parsed) \/ suggestions = <<>> THEN NoSuggestions
        ELSE [isNull |-> FALSE,
              noResults |-> TRUE,
              broaderQueries |->
                  Slice(Deduplicate(suggestions, {}), MaxSuggestions),
              prompt |-> "No emails found matching " \o Quote(parsed.raw)
                             \o ". Would you like me to try a broader search?"]

\* what listMessages can return
Message ==
    [id |-> "m1", threadId |-> "t1", snippet |-> "hello", from |-> "Don Stratton",
     subject |-> "hi", date |-> "2025/01/15", labelIds |-> <<"INBOX">>]
Listings ==
    {[messages |-> m, nextPageToken |-> t] :
        m \in {<<>>, <<Message>>}, t \in {Undef, "p2"}}

\* result.messages.map(...): the six fields of a message that are returned
SearchHit(m) ==
    [id |-> m.id, threadId |-> m.threadId, snippet |-> m.snippet,
     from |-> m.from, subject |-> m.subject, date |-> m.date]

SearchHits(messages) == [i \in 1..Len(messages) |-> SearchHit(messages[i])]

\* the value searchMessages returns once listMessages has returned r
searchMessagesAlwaysSuggests(q, r) ==
    LET suggestions == generateBroaderSuggestions(parseGmailQuery(q))
    IN  IF ~suggestions.isNull
        THEN [messages |-> SearchHits(r.messages), nextPageToken |-> r.nextPageToken,
              suggestions |-> [noResults |-> suggestions.noResults,
                               broaderQueries |-> suggestions.broaderQueries,
                               prompt |-> suggestions.prompt]]
        ELSE [messages |-> SearchHits(r.messages), nextPageToken |-> r.nextPageToken]

searchMessages(q, r) ==
    LET suggestions == generateBroaderSuggestions(parseGmailQuery(q))
    IN  IF Len(r.messages) = 0 /\ ~suggestions.isNull
        THEN [messages |-> SearchHits(r.messages), nextPageToken |-> r.nextPageToken,
              suggestions |-> [noResults |-> suggestions.noResults,
                               broaderQueries |-> suggestions.broaderQueries,
                               prompt |-> suggestions.prompt]]
        ELSE [messages |-> SearchHits(r.messages), nextPageToken |-> r.nextPageToken]

\* searchMessages is called and awaits listMessages
SearchMessages(q) ==
    /\ spc = "idle"
    /\ query' = q
    /\ listed' = NoListing
    /\ result' = NoListing
    /\ spc' = "listing"
    /\ UNCHANGED <<authVars, handlerVars, keysVars, pathVars>>

\* listMessages returns and searchMessages returns its value
ListMessagesReturns ==
    /\ spc = "listing"
    /\ \E r \in Listings :
         /\ listed' = r
         /\ result' = searchMessages(query, r)
    /\ spc' = "done"
    /\ UNCHANGED <<query, authVars, handlerVars, keysVars, pathVars>>

\* listMessages throws and searchMessages throws with it
ListMessagesThrows ==
    /\ spc = "listing"
    /\ spc' = "failed"
    /\ UNCHANGED <<query, listed, result, authVars, handlerVars, keysVars, pathVars>>

SearchInit == AuthQuiet /\ ToolsIdle

SearchNext ==
    \/ \E q \in Queries : SearchMessages(q)
    \/ ListMessagesReturns
    \/ ListMessagesThrows

SearchSpec == SearchInit /\ [][SearchNext]_vars

\* ------------------------------------------- the registration file
DefaultRedirectUri == "http://localhost:3000/oauth2callback"

\* redirect_uris of an app: missing, or a list
UriChoices ==
    {<<FALSE, <<>>>>,
     <<TRUE, <<>>>>,
     <<TRUE, <<"">>>>,
     <<TRUE, <<"http://localhost:8080/callback">>>>,
     <<TRUE, <<"urn:ietf:wg:oauth:2.0:oob">>>>,
     <<TRUE, <<"http://localhost:8080/callback", "urn:ietf:wg:oauth:2.0:oob">>>>,
     <<TRUE, <<"urn:ietf:wg:oauth:2.0:oob", "http://localhost:8080/callback">>>>}

\* the registration files that parse as JSON: each of the two shapes is
\* there or not
Registrations ==
    {[web |-> w, installed |-> i] :
        w \in {NoKeys} \cup {Keys("web-id", "web-secret", c[1], c[2]) : c \in UriChoices},
        i \in {NoKeys} \cup {Keys("app-id", "app-secret", c[1], c[2]) : c \in UriChoices}}

\* const keys = content.web || content.installed
KeysOf(content) == IF content.web.present THEN content.web ELSE content.installed

\* the value loadOAuthKeys returns for a content that holds one of the shapes
OAuthKeysOf(content) ==
    [client_id |-> KeysOf(content).client_id,
     client_secret |-> KeysOf(content).client_secret,
     redirect_uris |-> IF KeysOf(content).hasUris
                       THEN KeysOf(content).redirect_uris
                       ELSE <<DefaultRedirectUri>>]

\* new google.auth.OAuth2(client_id, client_secret, redirect_uris[0])
createOAuth2Client(content) ==
    IF ~KeysOf(content).present
    THEN [NoOAuth2Client EXCEPT !.error = ErrKeysFormat]
    ELSE LET keys == OAuthKeysOf(content)
         IN  [created |-> TRUE, error |-> "",
              clientId |-> keys.client_id,
              clientSecret |-> keys.client_secret,
              redirectUri |-> IF Len(keys.redirect_uris) > 0
                              THEN keys.redirect_uris[1] ELSE Undef]

CreateOAuth2Client ==
    /\ kpc = "idle"
    /\ oauth2Client' = createOAuth2Client(registration)
    /\ kpc' = IF KeysOf(registration).present THEN "created" ELSE "failed"
    /\ UNCHANGED <<registration, authVars, handlerVars, searchVars, pathVars>>

KeysInit ==
    /\ AuthQuiet /\ HandlerIdle /\ SearchIdle /\ PathIdle
    /\ kpc = "idle"
    /\ registration \in Registrations
    /\ oauth2Client = NoOAuth2Client

KeysNext == CreateOAuth2Client

KeysSpec == KeysInit /\ [][KeysNext]_vars

\* ------------------------------------------- accounts kept apart by path
\* Each account has its own server process, with its own value of
\* GMAIL_CREDENTIALS_PATH; the processes share the disk.
DefaultPath == getCredentialsPath(<<>>)

\* the record stored at a path before any call: the one at the default path
\* is fresh, the others are due
StoredAt(path) ==
    Cred("a0", "r:" \o Join(path, "/"), "s0", "Bearer",
         IF path = DefaultPath THEN MaxExpiry ELSE 0)

\* loadCredentials and saveCredentials each call getCredentialsPath
LoadPath(a) == getCredentialsPath(env[a])

SavePathDefault(a) == getCredentialsPath(<<>>)

SavePath(a) == getCredentialsPath(env[a])

\* getAuthenticatedClient of the process of account a, up to its await
PathGetAuthenticatedClient(a) ==
    /\ ppc[a] = "idle"
    /\ LET c == loadCredentials(disk[LoadPath(a)])
           d == Decide(c, now)
       IN  /\ pcred' = [pcred EXCEPT ![a] = c]
           /\ ppc' = [ppc EXCEPT ![a] =
                        CASE d = "refresh" -> "refreshing"
                          [] d = "fresh" -> "done"
                          [] OTHER -> "failed"]
    /\ readFrom' = [readFrom EXCEPT ![a] = @ \cup {LoadPath(a)}]
    /\ UNCHANGED <<env, disk, presp, wroteTo>>
    /\ UNCHANGED <<authVars, handlerVars, searchVars, keysVars>>

\* the refresh is answered: refreshAccessToken saves the updated record
PathRefreshSucceeds(a) ==
    /\ ppc[a] = "refreshing"
    /\ \E e \in {0, MaxExpiry} :
         LET r == Cred(Issued[a], Undef, "s1", "Bearer", e)
             text == Stringify(refreshAccessToken(pcred[a], r))
         IN  /\ presp' = [presp EXCEPT ![a] = r]
             /\ disk' = [disk EXCEPT ![SavePath(a)] =
                            WriteStep(WriteStep(@, text, 1), text, 2)]
    /\ wroteTo' = [wroteTo EXCEPT ![a] = @ \cup {SavePath(a)}]
    /\ ppc' = [ppc EXCEPT ![a] = "done"]
    /\ UNCHANGED <<env, pcred, readFrom>>
    /\ UNCHANGED <<authVars, handlerVars, searchVars, keysVars>>

\* the refresh fails: nothing is saved
PathRefreshFails(a) ==
    /\ ppc[a] = "refreshing"
    /\ ppc' = [ppc EXCEPT ![a] = "failed"]
    /\ UNCHANGED <<env, disk, pcred, presp, readFrom, wroteTo>>
    /\ UNCHANGED <<authVars, handlerVars, searchVars, keysVars>>

PathInit ==
    /\ AuthQuiet /\ HandlerIdle /\ SearchIdle /\ KeysIdle
    /\ env \in [Accounts -> EnvPaths]
    /\ disk = [path \in Paths |-> FileOf(Stringify(StoredAt(path)))]
    /\ ppc = [a \in Accounts |-> "idle"]
    /\ pcred = [a \in Accounts |-> NullCred]
    /\ presp = [a \in Accounts |-> NullCred]
    /\ readFrom = [a \in Accounts |-> {}]
    /\ wroteTo = [a \in Accounts |-> {}]

PathNext ==
    \/ \E a \in Accounts : PathGetAuthenticatedClient(a)
    \/ \E a \in Accounts : PathRefreshSucceeds(a)
    \/ \E a \in Accounts : PathRefreshFails(a)

PathSpec == PathInit /\ [][PathNext]_vars

\* ------------------------------------------------------------ properties
Due(p) ==
    /\ ~credentials[p].isNull
    /\ credentials[p].expiry_date # UndefNum
    /\ credentials[p].expiry_date < callAt[p] + ExpiryBuffer

Fresh(p) ==
    /\ ~credentials[p].isNull
    /\ credentials[p].expiry_date # UndefNum
    /\ credentials[p].expiry_date >= callAt[p] + ExpiryBuffer

\* C1 (P1): an invocation that loads a record with expiry_date >= now + 5
\* minutes sends no refresh request and does not write the credential file;
\* it ends in the step that loaded the record.
C1_FreshNoRefreshNoWrite ==
    \A p \in Procs :
        Fresh(p) => /\ refreshCalls[p] = 0
                    /\ writes[p] = 0
                    /\ pc[p] \in {"done", "failed"}

C1_Witness ==
    \E p \in Procs :
        /\ pc[p] = "done"
        /\ credentials[p].expiry_date = callAt[p] + ExpiryBuffer
        /\ callAt[p] > 0
        /\ refreshCalls[p] = 0
        /\ writes[p] = 0

\* C2 (P2): an invocation that loads a record with expiry_date < now + 5
\* minutes and a refresh token returns a client only after exactly one
\* refresh request and exactly one write, the client carries the access token
\* of the refresh response, and it fails only with the refresh failure.
C2_DueRefreshesOnce ==
    \A p \in Procs :
        (Due(p) /\ ~Falsy(credentials[p].refresh_token)) =>
            /\ pc[p] = "done" =>
                 /\ refreshCalls[p] = 1
                 /\ writes[p] = 1
                 /\ ~newCreds[p].isNull
                 /\ client[p].access_token = newCreds[p].access_token
            /\ pc[p] = "failed" =>
                 /\ refreshCalls[p] = 1
                 /\ err[p].msg = ErrRefreshFailed

C2_Witness ==
    \E p \in Procs :
        /\ pc[p] = "done"
        /\ Due(p)
        /\ credentials[p].expiry_date = callAt[p] + ExpiryBuffer - 1
        /\ refreshCalls[p] = 1
        /\ writes[p] = 1
        /\ credentials[p].access_token = "a0"
        /\ client[p].access_token = "a1"

\* C3 (P3): when the refresh response carries no refresh token, the record
\* the refresh writes to the file has the refresh_token of the loaded record.
C3_RefreshTokenKept ==
    \A p \in Procs :
        (pc[p] \in {"writing", "done"} /\ refreshCalls[p] = 1
            /\ newCreds[p].refresh_token = Undef) =>
            /\ Parse(Stringify(updated[p])).value.refresh_token
                   = credentials[p].refresh_token
            /\ pc[p] = "done" => Stringify(updated[p]) \in written

C3_Witness ==
    \E p \in Procs :
        /\ pc[p] = "done"
        /\ refreshCalls[p] = 1
        /\ newCreds[p].refresh_token = Undef
        /\ file = FileOf(Stringify(updated[p]))
        /\ Parse(file.text).value.refresh_token = "r0"
        /\ Parse(file.text).value.access_token = "a1"

\* C4: whenever getAuthenticatedClient returns a client, the expiry_date set
\* on the client is later than the time of the return.
C4_ReturnedTokenNotExpired ==
    [][\A p \in Procs :
          ((GetAuthenticatedClient(p) \/ SaveAndReturn(p)) /\ pc'[p] = "done")
              => JsLt(now', client'[p].expiry_date)]_vars

\* C5: once the credential file has held a record with a non-empty
\* refresh_token, every record it holds has a non-empty refresh_token.
C5_RefreshTokenNeverDropped ==
    (hadRT /\ IsRecord(file)) => HasRefreshToken(file)

\* C6: a load that runs while a save over a valid record is under way
\* returns a record (the old one or the new one), never null.
C6_SaveAtomicForReaders ==
    \A p \in Procs : recordAtLoad[p] => ~credentials[p].isNull

\* C7 (P5): every record a load returns is a record that one save, or the
\* authorization flow that made the first file, wrote in full.
C7_LoadedRecordWrittenWhole ==
    \A p \in Procs :
        ~credentials[p].isNull => \E w \in written : credentials[p] = Parse(w).value

C7_Witness ==
    \E p \in Procs :
        /\ recordAtLoad[p]
        /\ ~credentials[p].isNull
        /\ credentials[p].access_token # "a0"

\* C8 (Scenario A, P4): with a usable registration, an invocation that finds
\* no credential file, or one that is not valid JSON, fails with the
\* missing-credentials error, sends no refresh request and writes nothing.
C8_AbsentOrCorruptFails ==
    \A p \in Procs :
        (pc[p] # "idle" /\ loadOAuthKeys(keysFile) = ""
            /\ (~sawFile[p].exists \/ Parse(sawFile[p].text).threw)) =>
            /\ pc[p] = "failed"
            /\ err[p] = Error(ErrNoCredentials, "")
            /\ client[p] = NoClient
            /\ refreshCalls[p] = 0
            /\ writes[p] = 0

C8_Witness ==
    \E p, q \in Procs :
        /\ pc[p] = "failed" /\ ~sawFile[p].exists
        /\ pc[q] = "failed" /\ sawFile[q].exists /\ Parse(sawFile[q].text).threw
        /\ err[p].msg = ErrNoCredentials
        /\ err[q] = err[p]

\* C9 (Scenario D): an invocation that loads a record with an empty or
\* missing refresh_token and an expiry_date before now + 5 minutes fails with
\* the missing-refresh-token error, sends no refresh request and writes
\* nothing.
C9_NoRefreshTokenFails ==
    \A p \in Procs :
        (Due(p) /\ Falsy(credentials[p].refresh_token)) =>
            /\ pc[p] = "failed"
            /\ err[p] = Error(ErrNoRefreshToken, "")
            /\ client[p] = NoClient
            /\ refreshCalls[p] = 0
            /\ writes[p] = 0

C9_Witness ==
    \E p \in Procs :
        /\ pc[p] = "failed"
        /\ Due(p)
        /\ credentials[p].refresh_token = ""
        /\ credentials[p].expiry_date < callAt[p]
        /\ err[p].msg = ErrNoRefreshToken

\* C10 (Scenario E): the step in which the refresh request fails ends the
\* invocation with the refresh-failure error and its cause, returns no
\* client, and leaves the credential file as it is; the invocation has
\* written nothing.
C10_RefreshFailureLeavesFile ==
    [][\A p \in Procs :
          (pc[p] = "refreshing" /\ pc'[p] = "failed") =>
              /\ file' = file
              /\ writes'[p] = 0
              /\ client'[p] = NoClient
              /\ err'[p].msg = ErrRefreshFailed
              /\ err'[p].cause \in Causes]_vars

C10_Witness ==
    \E p \in Procs :
        /\ pc[p] = "failed"
        /\ err[p] = Error(ErrRefreshFailed, "invalid_grant")
        /\ writes[p] = 0
        /\ file = sawFile[p]
        /\ IsRecord(file)

\* the record a load of the file content f yields, computed from the content
RecordIn(f) == IF f.exists THEN Parse(f.text).value ELSE NullCred

\* C11: nothing is cached between invocations: every invocation that got
\* past the registration check holds the record parsed from the content the
\* credential file had at that invocation's load, and an invocation that
\* returned without refreshing built its client from exactly that record.
C11_EachCallReadsTheFile ==
    \A p \in Procs :
        (pc[p] # "idle" /\ loadOAuthKeys(keysFile) = "") =>
            /\ credentials[p] = RecordIn(sawFile[p])
            /\ (pc[p] = "done" /\ refreshCalls[p] = 0) =>
                   client[p] = ClientOf(credentials[p])

\* process 1 called twice: its first call refreshed the stored record and
\* saved it, the authorization flow then wrote a new record, and its second
\* call returned the client of that new record
C11_Witness ==
    /\ calls = 2
    /\ pc[2] = "idle"
    /\ pc[1] = "done"
    /\ refreshCalls[1] = 0
    /\ \E w \in written : Parse(w).value.access_token = "a1"
    /\ authPc = "done"
    /\ credentials[1].access_token = "a9"
    /\ client[1].access_token = "a9"

\* C12: concurrent invocations that all find the credential Due do not
\* refresh twice: at most one refresh request is in flight at a time.
C12_AtMostOneRefreshInFlight ==
    Cardinality({p \in Procs : pc[p] = "refreshing"}) <= 1

\* an invocation stopped at the registration check: the credential file was
\* not read or written and no refresh was requested
StoppedAtRegistration(p) ==
    /\ pc[p] = "failed"
    /\ sawFile[p] = NoFile
    /\ credentials[p].isNull
    /\ refreshCalls[p] = 0
    /\ writes[p] = 0
    /\ client[p] = NoClient

\* C13: registration is checked first: a missing registration file fails
\* with the missing-registration error, a registration file holding neither
\* shape (content that is not JSON included) fails with the
\* invalid-registration-format error, and in both cases the credential file
\* is neither read nor written and no refresh is attempted.
C13_RegistrationCheckedFirst ==
    \A p \in Procs :
        pc[p] # "idle" =>
            /\ keysFile = "missing" =>
                   err[p] = Error(ErrKeysNotFound, "") /\ StoppedAtRegistration(p)
            /\ keysFile \in {"noshape", "notjson"} =>
                   err[p] = Error(ErrKeysFormat, "") /\ StoppedAtRegistration(p)

\* C16 as stated (Scenario C): every invocation that loads a Fresh record
\* succeeds and returns a client carrying the stored access_token; the
\* refresh-token requirement applies only when a refresh is triggered.
C16_FreshAlwaysSucceeds ==
    \A p \in Procs :
        Fresh(p) => /\ pc[p] = "done"
                    /\ client[p].access_token = credentials[p].access_token

\* C16 amended: an invocation that loads a Fresh record with a non-empty
\* refresh_token succeeds without a refresh and returns a client carrying
\* the stored access_token; the refresh-token requirement is checked on
\* every invocation before the freshness test, so an invocation that loads
\* a Fresh record whose refresh_token is missing or empty fails with the
\* missing-refresh-token error and returns no client.
C16_FreshWithRefreshTokenSucceeds ==
    \A p \in Procs :
        Fresh(p) =>
            IF Falsy(credentials[p].refresh_token)
            THEN /\ pc[p] = "failed"
                 /\ err[p] = Error(ErrNoRefreshToken, "")
                 /\ client[p] = NoClient
            ELSE /\ pc[p] = "done"
                 /\ refreshCalls[p] = 0
                 /\ client[p].access_token = credentials[p].access_token

C16_Witness ==
    \E p, q \in Procs :
        /\ Fresh(p)
        /\ Falsy(credentials[p].refresh_token)
        /\ pc[p] = "failed"
        /\ err[p].msg = ErrNoRefreshToken
        /\ Fresh(q)
        /\ ~Falsy(credentials[q].refresh_token)
        /\ pc[q] = "done"
        /\ client[q].access_token = credentials[q].access_token

\* C17: after every successful refresh the expiry_date of the record that
\* is saved and returned is a number strictly greater than the expiry_date
\* of the record loaded before the refresh.
C17_ExpiryStrictlyIncreases ==
    \A p \in Procs :
        (pc[p] \in {"writing", "done"} /\ refreshCalls[p] = 1) =>
            /\ updated[p].expiry_date # UndefNum
            /\ updated[p].expiry_date > credentials[p].expiry_date

\* C18: a refresh response with the access token or the expiry missing ends
\* the invocation with the refresh-failure error: no record is written to
\* the credential file and no client is returned.
C18_MalformedResponseFails ==
    \A p \in Procs :
        (/\ ~newCreds[p].isNull
         /\ \/ newCreds[p].access_token = Undef
            \/ newCreds[p].expiry_date = UndefNum) =>
            /\ pc[p] = "failed"
            /\ err[p].msg = ErrRefreshFailed
            /\ writes[p] = 0
            /\ client[p] = NoClient

\* the content is a credential record of the expected shape: an object that
\* carries every field of the Credentials interface
ExpectedShape(text) ==
    /\ WellFormed(text)
    /\ \A f \in FieldNames : \E i \in 1..Len(text) : text[i].k = f

\* C19: a load of content that is not a record of the expected shape (valid
\* JSON such as {} included) yields absent, and the invocation fails with
\* the missing-credentials error exactly as for a missing file.
C19_NotARecordIsAbsent ==
    \A p \in Procs :
        (/\ pc[p] # "idle"
         /\ loadOAuthKeys(keysFile) = ""
         /\ sawFile[p].exists
         /\ ~ExpectedShape(sawFile[p].text)) =>
            /\ credentials[p].isNull
            /\ pc[p] = "failed"
            /\ err[p] = Error(ErrNoCredentials, "")

\* C20: within an invocation that refreshes, no client is returned while
\* the refresh or the save is under way; when the client is returned the
\* write of the updated record has completed, and the client carries the
\* record that invocation saved.
C20_SavedBeforeReturned ==
    \A p \in Procs :
        /\ pc[p] \in {"refreshing", "writing"} => client[p] = NoClient
        /\ (pc[p] = "done" /\ refreshCalls[p] = 1) =>
               /\ writes[p] = 1
               /\ Stringify(updated[p]) \in written
               /\ client[p] = ClientOf(Parse(Stringify(updated[p])).value)

C20_Witness ==
    \E p \in Procs :
        /\ pc[p] = "done"
        /\ refreshCalls[p] = 1
        /\ file = FileOf(Stringify(updated[p]))
        /\ client[p].access_token = updated[p].access_token
        /\ client[p].access_token # credentials[p].access_token

\* C14: the handler returns a response to every tool call request and never
\* throws: an unknown tool name yields isError = true with the text
\* 'Unknown tool: <name>' and no tool function is called; an error thrown by
\* a tool yields isError = true with the text 'Error: <message>' carrying
\* the message of that error (the text of a thrown value that is not an
\* Error); a tool that returns yields the JSON text of its result and no
\* isError flag.
C14_HandlerNeverThrows ==
    /\ hpc \in {"idle", "awaiting", "responded"}
    /\ hpc = "awaiting" => request \in Tools
    /\ hpc = "responded" =>
        /\ DOMAIN response \in {{"content"}, {"content", "isError"}}
        /\ Len(response.content) = 1
        /\ response.content[1].type = "text"
        /\ request \notin Tools =>
               /\ outcome.kind = "none"
               /\ response.content[1].text = "Unknown tool: " \o request
               /\ "isError" \in DOMAIN response /\ response.isError
        /\ request \in Tools => outcome.kind \in {"returned", "threw"}
        /\ outcome.kind = "threw" =>
               /\ "isError" \in DOMAIN response /\ response.isError
               /\ outcome.instanceofError =>
                      response.content[1].text = "Error: " \o outcome.message
               /\ ~outcome.instanceofError =>
                      response.content[1].text \in
                          {"Error: quota exceeded", "Error: [object Object]"}
        /\ outcome.kind = "returned" =>
               /\ "isError" \notin DOMAIN response
               /\ response.content[1].text \in
                      {"{}",
                       "{\n  \"id\": \"m1\",\n  \"threadId\": \"t1\"\n}",
                       "{\n  \"id\": \"m1\"\n}"}

\* a search whose refresh failed is answered with the credential error's
\* message
C14_Witness ==
    /\ hpc = "responded"
    /\ request = "search_messages"
    /\ outcome.kind = "threw"
    /\ response =
           [content |-> <<[type |-> "text",
                           text |-> "Error: Failed to refresh access token: invalid_grant"]>>,
            isError |-> TRUE]

\* the query holds an operator whose restriction a suggestion can drop
Broadenable(q) ==
    \E i \in 1..Len(q) :
        q[i].op \in {"from", "to", "subject", "after", "before", "label"}

\* C15: the value searchMessages returns has a suggestions field only when
\* the search returned no message and the query holds at least one operator
\* that can be broadened: a search with one or more results, and a search of
\* plain text without operators, carries no suggestions.
C15_SuggestionsOnlyWhenEmptyAndBroadenable ==
    (spc = "done" /\ "suggestions" \in DOMAIN result) =>
        /\ Len(listed.messages) = 0
        /\ Broadenable(query)

C15_Witness ==
    /\ spc = "done"
    /\ query = <<Item("from", <<"Don">>, FALSE), Item("label", <<"work">>, FALSE)>>
    /\ listed.messages = <<>>
    /\ "suggestions" \in DOMAIN result
    /\ result.suggestions.noResults
    /\ result.suggestions.broaderQueries[1].query = "Don"
    /\ result.suggestions.broaderQueries[2].query = "from:Don"

\* C21: no internal retry: an invocation sends at most one refresh request,
\* and an invocation that ended with the refresh-failure error sent exactly
\* one and is not waiting for another.
C21_AtMostOneRefreshRequest ==
    \A p \in Procs :
        /\ refreshCalls[p] <= 1
        /\ pc[p] = "refreshing" => refreshCalls[p] = 1
        /\ err[p].msg = ErrRefreshFailed =>
               pc[p] = "failed" /\ refreshCalls[p] = 1

C21_Witness ==
    \E p \in Procs :
        /\ pc[p] = "failed"
        /\ err[p] = Error(ErrRefreshFailed, "ETIMEDOUT")
        /\ refreshCalls[p] = 1
        /\ issued = 0

\* C22: two invocations that overlap and both load a Due credential each
\* send their own refresh request and each perform their own save, and the
\* step that ends a save leaves in the credential file the record of that
\* save: the file holds the record of whichever save ran last.
C22_LastSaveWins ==
    [][\A p, q \in Procs :
          (/\ p # q
           /\ authPc = "idle"
           /\ Due(p) /\ Due(q)
           /\ refreshCalls[q] = 1 /\ pc[q] \in {"refreshing", "writing", "done"}
           /\ pc[p] = "writing" /\ pc'[p] = "done") =>
              /\ refreshCalls[p] = 1
              /\ writes[p] = 1
              /\ pc[q] = "done" => writes[q] = 1
              /\ file' = FileOf(Stringify(updated[p]))]_vars

\* C23: a refresh changes only the access token and the expiry: the scope
\* and the token_type of the record a successful refresh saves are those of
\* the record loaded before it, whatever the refresh response carries.
C23_ScopeAndTypeKept ==
    \A p \in Procs :
        (pc[p] \in {"writing", "done"} /\ refreshCalls[p] = 1) =>
            /\ Parse(Stringify(updated[p])).value.scope = credentials[p].scope
            /\ Parse(Stringify(updated[p])).value.token_type
                   = credentials[p].token_type
            /\ pc[p] = "done" => Stringify(updated[p]) \in written

C23_Witness ==
    \E p \in Procs :
        /\ pc[p] = "done"
        /\ refreshCalls[p] = 1
        /\ newCreds[p].scope = "s2"
        /\ newCreds[p].token_type = "MAC"
        /\ file = FileOf(Stringify(updated[p]))
        /\ Parse(file.text).value.scope = "s0"
        /\ Parse(file.text).value.token_type = "Bearer"

\* C24: every invocation of getAuthenticatedClient eventually ends, with a
\* client or with an error, also when the authorization server never
\* answers the refresh request.
C24_EveryInvocationEnds ==
    \A p \in Procs :
        (pc[p] \in {"refreshing", "waiting", "writing"})
            ~> (pc[p] \in {"done", "failed"})

\* C25: for a registration file of a recognised shape that supplies no
\* redirect URI (redirect_uris missing, or present with no first element)
\* the client is created with the default callback URI; otherwise it is
\* created with the first element of redirect_uris.
C25_RedirectUriDefault ==
    kpc = "created" =>
        /\ oauth2Client.created
        /\ oauth2Client.redirectUri =
               IF \/ ~KeysOf(registration).hasUris
                  \/ Len(KeysOf(registration).redirect_uris) = 0
               THEN "http://localhost:3000/oauth2callback"
               ELSE KeysOf(registration).redirect_uris[1]

\* C26: accounts are isolated by path: every step of an invocation whose
\* credential path resolves to P reads only P and writes only P, the path
\* the record was loaded from, and leaves the file at every other path as
\* it is.
C26_IsolatedByPath ==
    [][\A a \in Accounts :
          ppc'[a] # ppc[a] =>
              /\ readFrom'[a] = {getCredentialsPath(env[a])}
              /\ wroteTo'[a] \subseteq readFrom'[a]
              /\ ppc'[a] = "done" /\ ppc[a] = "refreshing" =>
                     wroteTo'[a] = readFrom'[a]
              /\ \A path \in Paths \ readFrom'[a] : disk'[path] = disk[path]]_vars

\* both accounts refreshed: each file holds its own account's new record,
\* with its own refresh token, and the file at the default path is as stored
C26_Witness ==
    /\ env[1] = <<"~", ".gmail-mcp", "work", "credentials.json">>
    /\ env[2] = <<"/", "data", "personal", "credentials.json">>
    /\ ppc = [a \in Accounts |-> "done"]
    /\ wroteTo[1] = {<<"/", "home", "you", ".gmail-mcp", "work", "credentials.json">>}
    /\ wroteTo[2] = {<<"/", "data", "personal", "credentials.json">>}
    /\ Parse(disk[<<"/", "home", "you", ".gmail-mcp", "work", "credentials.json">>].text).value
           = Cred("a1", "r://home/you/.gmail-mcp/work/credentials.json", "s0",
                  "Bearer", MaxExpiry)
    /\ Parse(disk[<<"/", "data", "personal", "credentials.json">>].text).value.access_token
           = "a2"
    /\ disk[DefaultPath] = FileOf(Stringify(StoredAt(DefaultPath)))

\* the query holds date restrictions and nothing else
OnlyDates(q) ==
    /\ Len(q) > 0
    /\ \A i \in 1..Len(q) : q[i].op \in {"after", "before"}

\* C27: a search that returned no message and whose query consists only of
\* date restrictions (after: and/or before:) returns suggestions, and they
\* are queries that remove or widen the date range.
C27_DateOnlyQueryGetsSuggestions ==
    (spc = "done" /\ Len(listed.messages) = 0 /\ OnlyDates(query)) =>
        /\ "suggestions" \in DOMAIN result
        /\ Len(result.suggestions.broaderQueries) > 0

\* C28: a search that returned no message and whose query is from: followed
\* by an unquoted name of two words (from:Don Stratton) returns suggestions
\* holding one all-fields query for each word of the name.
C28_EachWordOfNameSuggested ==
    (/\ spc = "done"
     /\ Len(listed.messages) = 0
     /\ query = <<Item("from", <<"Don">>, FALSE), Item("", <<"Stratton">>, FALSE)>>) =>
        /\ "suggestions" \in DOMAIN result
        /\ \E i \in 1..Len(result.suggestions.broaderQueries) :
               result.suggestions.broaderQueries[i].query = "Don"
        /\ \E i \in 1..Len(result.suggestions.broaderQueries) :
               result.suggestions.broaderQueries[i].query = "Stratton"

\* the place of an access token in the order the server issued them; 0 for
\* a token that no refresh returned
IssueOrder(t) ==
    IF \E i \in 1..Len(Issued) : Issued[i] = t
    THEN CHOOSE i \in 1..Len(Issued) : Issued[i] = t
    ELSE 0

\* C29: under any interleaving of invocations on one credential path, the
\* expiry_date of the record in the credential file never decreases from
\* one save to the next, and a save never replaces a record by one obtained
\* from an older refresh: neither when a save opens the file over a record,
\* nor when its write lands over a record.
C29_ExpiryNeverDecreases ==
    [][\A p \in Procs :
          /\ (pc[p] = "refreshing" /\ pc'[p] = "writing" /\ IsRecord(file)) =>
                 /\ updated'[p].expiry_date >= Parse(file.text).value.expiry_date
                 /\ IssueOrder(updated'[p].access_token)
                        >= IssueOrder(Parse(file.text).value.access_token)
          /\ (pc[p] = "writing" /\ pc'[p] = "done"
                 /\ IsRecord(file) /\ IsRecord(file')) =>
                 /\ Parse(file'.text).value.expiry_date
                        >= Parse(file.text).value.expiry_date
                 /\ IssueOrder(Parse(file'.text).value.access_token)
                        >= IssueOrder(Parse(file.text).value.access_token)]_vars

\* the record the authorization flow wrote
AuthRecord == Parse(authText).value

\* C30: no lost re-authorization: once the authorization flow has written a
\* record with a refresh token and every save has finished, a file that
\* holds a record holds the refresh token the authorization flow wrote,
\* also when a refresh started from the earlier record was in flight.
C30_ReauthorizationNotLost ==
    (/\ authPc = "done"
     /\ ~Falsy(AuthRecord.refresh_token)
     /\ \A p \in Procs : pc[p] \notin {"refreshing", "writing"}
     /\ IsRecord(file)) =>
        Parse(file.text).value.refresh_token = AuthRecord.refresh_token

====
